---- MODULE Spec2Model ----
(***************************************************************************)
(* Model of the spreadsheet-to-static-site generators of this repository:  *)
(*   src/generate_sites.py  (definitions prefixed GS_)                     *)
(*   src/build.py           (definitions prefixed B_)                      *)
(*   src/build_sites.py     (definitions prefixed BS_)                     *)
(* A Python str is modelled as a sequence of one-character strings.  A     *)
(* Python call is modelled by its outcome: Ok(v) when it returns v,        *)
(* Raise(e) when exception e leaves it.                                    *)
(***************************************************************************)
EXTENDS Integers, Sequences, FiniteSets, TLC

VARIABLES
    call,     \* name of the function that has been applied ("none" before)
    arg,      \* the argument it is applied to
    ret,      \* its outcome, Ok(v) or Raise(e) (NoRet before the call)
    pc,       \* position of main() in a run ("idle" when no run is modelled)
    archive,  \* the xlsx file: the parts it holds and their content
    log,      \* the archive and file-system operations of the run, in order
    rows,     \* the decoded worksheet rows
    stores,   \* the records
    files,    \* the output tree: path -> content
    stdout,   \* the lines printed
    error     \* the exception that ended the run (NoError while there is none)

callVars == <<call, arg, ret>>
runVars == <<pc, archive, log, rows, stores, files, stdout, error>>
vars == <<call, arg, ret, pc, archive, log, rows, stores, files, stdout, error>>

(***************************************************************************)
(* Python values and outcomes                                              *)
(***************************************************************************)
Ok(v) == [kind |-> "ok", val |-> v]
Raise(e) == [kind |-> "raise", exc |-> e]
NoRet == [kind |-> "pending"]
None == [kind |-> "none"]
PyInt(n) == [kind |-> "int", val |-> n]
IsNone(v) == v.kind = "none"

\* try: <r>  except <excs>: return <handler>
Except(r, excs, handler) ==
    IF r.kind = "raise" /\ r.exc \in excs THEN Ok(handler) ELSE r

SeqsUpTo(S, n) == UNION {[1..k -> S] : k \in 0..n}

(***************************************************************************)
(* str methods                                                             *)
(***************************************************************************)
Whitespace == {" "}

RECURSIVE lstripSet(_, _)
lstripSet(s, cs) ==
    IF s # <<>> /\ Head(s) \in cs THEN lstripSet(Tail(s), cs) ELSE s

RECURSIVE rstripSet(_, _)
rstripSet(s, cs) ==
    IF s # <<>> /\ s[Len(s)] \in cs THEN rstripSet(SubSeq(s, 1, Len(s) - 1), cs) ELSE s

stripSet(s, cs) == rstripSet(lstripSet(s, cs), cs)
strip(s) == stripSet(s, Whitespace)

startswith(s, p) == Len(s) >= Len(p) /\ SubSeq(s, 1, Len(p)) = p

Digits == {"0", "1", "2", "3", "4", "5", "6", "7", "8", "9"}
DigitVal(c) ==
    CASE c = "0" -> 0 [] c = "1" -> 1 [] c = "2" -> 2 [] c = "3" -> 3 [] c = "4" -> 4
      [] c = "5" -> 5 [] c = "6" -> 6 [] c = "7" -> 7 [] c = "8" -> 8 [] c = "9" -> 9

RECURSIVE DecimalVal(_)
DecimalVal(ds) ==
    IF ds = <<>> THEN 0 ELSE 10 * DecimalVal(SubSeq(ds, 1, Len(ds) - 1)) + DigitVal(ds[Len(ds)])

(***************************************************************************)
(* float(str) and int(float) of the Python runtime, on strings made of     *)
(* digits, sign, decimal point, letters and blanks (no exponent, no        *)
(* underscore).  A finite float is kept as sign, integer part and the      *)
(* digits of its fraction.                                                 *)
(***************************************************************************)
IsDigits(s) == \A i \in 1..Len(s) : s[i] \in Digits

DotAt(s) == IF \E i \in 1..Len(s) : s[i] = "."
            THEN CHOOSE i \in 1..Len(s) : s[i] = "." /\ \A j \in 1..(i - 1) : s[j] # "."
            ELSE 0

py_float(s) ==
    LET t == strip(s)
        neg == t # <<>> /\ Head(t) = "-"
        signed == t # <<>> /\ Head(t) \in {"-", "+"}
        body == IF signed THEN Tail(t) ELSE t
        d == DotAt(body)
        ipart == IF d = 0 THEN body ELSE SubSeq(body, 1, d - 1)
        fpart == IF d = 0 THEN <<>> ELSE SubSeq(body, d + 1, Len(body))
    IN  IF body \in {<<"i", "n", "f">>, <<"i", "n", "f", "i", "n", "i", "t", "y">>}
        THEN Ok([kind |-> "inf", neg |-> neg])
        ELSE IF body = <<"n", "a", "n">>
        THEN Ok([kind |-> "nan"])
        ELSE IF IsDigits(ipart) /\ IsDigits(fpart) /\ Len(ipart) + Len(fpart) > 0
        THEN Ok([kind |-> "fin", neg |-> neg, ip |-> DecimalVal(ipart), fr |-> fpart])
        ELSE Raise("ValueError")

\* int(f): truncation toward zero; NaN and the infinities have no integer.
py_int(f) ==
    CASE f.kind = "nan" -> Raise("ValueError")
      [] f.kind = "inf" -> Raise("OverflowError")
      [] f.kind = "fin" -> Ok(IF f.neg THEN 0 - f.ip ELSE f.ip)

py_abs(n) == IF n < 0 THEN 0 - n ELSE n

\* abs(f) of a float
py_fabs(f) == IF f.kind = "nan" THEN f ELSE [f EXCEPT !.neg = FALSE]

(***************************************************************************)
(* Numeric coercion                                                        *)
(***************************************************************************)
CoercionCaught == {"TypeError", "ValueError"}

GS_safe_float(value) == Except(py_float(value), CoercionCaught, None)

GS_safe_int(value) ==
    LET f == py_float(value)
        i == IF f.kind = "ok" THEN py_int(f.val) ELSE f
        a == IF i.kind = "ok" THEN Ok(PyInt(py_abs(i.val))) ELSE i
    IN  Except(a, CoercionCaught, None)

B_to_float(value) == Except(py_float(value), CoercionCaught, None)

BS_to_float(value) == Except(py_float(value), CoercionCaught, None)

BS_to_int(value) ==
    LET f == BS_to_float(value)
    IN  IF f.kind # "ok" THEN f
        ELSE IF IsNone(f.val) THEN Ok(None)
        ELSE LET i == py_int(py_fabs(f.val))
             IN  IF i.kind = "ok" THEN Ok(PyInt(i.val)) ELSE i

(***************************************************************************)
(* Character classes.  A character outside ASCII is written by its code    *)
(* point: "U+6C34" is one character.                                       *)
(***************************************************************************)
LowerSeq == <<"a", "b", "c", "d", "e", "f", "g", "h", "i", "j", "k", "l", "m",
              "n", "o", "p", "q", "r", "s", "t", "u", "v", "w", "x", "y", "z">>
UpperSeq == <<"A", "B", "C", "D", "E", "F", "G", "H", "I", "J", "K", "L", "M",
              "N", "O", "P", "Q", "R", "S", "T", "U", "V", "W", "X", "Y", "Z">>
AsciiLower == {LowerSeq[i] : i \in 1..26}
AsciiUpper == {UpperSeq[i] : i \in 1..26}
\* code points inside U+4E00..U+9FFF
CJK == {"U+672A", "U+547D", "U+540D", "U+6C34", "U+96FB", "U+884C"}
\* a letter outside ASCII and outside the CJK range (e with acute accent)
OtherLetters == {"U+00E9"}

LetterVal(c) == CHOOSE i \in 1..26 : UpperSeq[i] = c
lowerChar(c) == IF c \in AsciiUpper THEN LowerSeq[LetterVal(c)] ELSE c
lower(s) == [i \in 1..Len(s) |-> lowerChar(s[i])]

\* str(n) for n >= 0
RECURSIVE DecimalStr(_)
DecimalStr(n) ==
    LET d == CHOOSE c \in Digits : DigitVal(c) = n % 10
    IN  IF n < 10 THEN <<d>> ELSE DecimalStr(n \div 10) \o <<d>>

\* re.sub(r"[^<ok>]+", "-", s): every maximal run of characters outside ok
\* becomes one separator.
RECURSIVE SubRuns(_, _)
SubRuns(s, ok) ==
    IF s = <<>> THEN <<>>
    ELSE IF Head(s) \in ok THEN <<Head(s)>> \o SubRuns(Tail(s), ok)
    ELSE IF Len(s) > 1 /\ s[2] \notin ok THEN SubRuns(Tail(s), ok)
    ELSE <<"-">> \o SubRuns(Tail(s), ok)

\* re.sub(r"-+", "-", s)
RECURSIVE CollapseDashes(_)
CollapseDashes(s) ==
    IF s = <<>> THEN <<>>
    ELSE IF Head(s) = "-" /\ Len(s) > 1 /\ s[2] = "-" THEN CollapseDashes(Tail(s))
    ELSE <<Head(s)>> \o CollapseDashes(Tail(s))

Rep(c, k) == [i \in 1..k |-> c]
Prefix(s, n) == SubSeq(s, 1, IF Len(s) < n THEN Len(s) ELSE n)

(***************************************************************************)
(* Slug generators                                                         *)
(***************************************************************************)
B_SlugMax == 60
B_SlugAllowed == AsciiLower \cup Digits \cup CJK
SlugFallback == <<"s", "t", "o", "r", "e">>

\* slugify without the second trim that follows the truncation
B_slugify_no_retrim(text) ==
    LET t1 == lower(text)
        t2 == SubRuns(t1, B_SlugAllowed)
        t3 == stripSet(CollapseDashes(t2), {"-"})
        t4 == Prefix(t3, B_SlugMax)
    IN  IF t4 = <<>> THEN SlugFallback ELSE t4

B_slugify(text) ==
    LET t1 == lower(text)
        t2 == SubRuns(t1, B_SlugAllowed)
        t3 == stripSet(CollapseDashes(t2), {"-"})
        t4 == rstripSet(Prefix(t3, B_SlugMax), {"-"})
    IN  IF t4 = <<>> THEN SlugFallback ELSE t4

\* \w of a str pattern: letters and digits of every script, and the underscore
GS_WordChars == AsciiLower \cup AsciiUpper \cup Digits \cup CJK \cup OtherLetters \cup {"_"}

GS_slugify(name) ==
    LET s1 == SubRuns(lower(strip(name)), GS_WordChars)
        s2 == stripSet(CollapseDashes(s1), {"-"})
    IN  IF s2 = <<>> THEN SlugFallback ELSE s2

BS_SlugAllowed == AsciiLower \cup AsciiUpper \cup Digits

BS_slugify(name, index) ==
    LET base == lower(stripSet(SubRuns(name, BS_SlugAllowed), {"-"}))
        nn == IF index < 10 THEN <<"0">> \o DecimalStr(index) ELSE DecimalStr(index)
    IN  IF base = <<>> THEN <<"s", "h", "o", "p", "-">> \o nn ELSE base

(***************************************************************************)
(* Record mappers.  A row is the list of its cell strings; Python index i  *)
(* is position i + 1 of the sequence.                                      *)
(***************************************************************************)
\* def get(index): row[index] if len(row) > index else ""
get(row, index) == IF Len(row) > index THEN row[index + 1] ELSE <<>>

\* row[n:]
SliceFrom(row, n) == IF Len(row) > n THEN SubSeq(row, n + 1, Len(row)) ELSE <<>>

\* row[index] of a list: IndexError past the end
Subscript(row, index) == IF index < Len(row) THEN Ok(row[index + 1]) ELSE Raise("IndexError")

RECURSIVE Join(_)
Join(parts) == IF parts = <<>> THEN <<>> ELSE Head(parts) \o Join(Tail(parts))

\* the two default image URLs, written by their last path component
DEFAULT_AVATAR == <<"d", "e", "f", "a", "u", "l", "t", "_", "u", "s", "e", "r">>
DEFAULT_HERO == <<"d", "e", "f", "a", "u", "l", "t", "_", "l", "o", "g", "o">>

\* "".join(part.strip() for part in row[18:] if part).strip()
GS_snippet(row) ==
    LET rest == SliceFrom(row, 18)
    IN  strip(Join([i \in 1..Len(rest) |-> strip(rest[i])]))

\* row_to_store: Ok(None) is the skip signal, Ok(store) a record
GS_row_to_store(row) ==
    LET name == strip(get(row, 5))
        rating == GS_safe_float(strip(get(row, 6)))
        review_count == GS_safe_int(strip(get(row, 7)))
        hero == strip(get(row, 16))
        avatar == strip(get(row, 17))
    IN  IF Len(row) < 2 THEN Ok(None)
        ELSE IF name = <<>> THEN Ok(None)
        ELSE IF rating.kind = "raise" THEN rating
        ELSE IF review_count.kind = "raise" THEN review_count
        ELSE Ok([kind |-> "store",
                 map_url |-> strip(get(row, 4)),
                 name |-> name,
                 rating |-> rating.val,
                 review_count |-> review_count.val,
                 category |-> strip(get(row, 8)),
                 address |-> strip(get(row, 11)),
                 status |-> strip(get(row, 12)),
                 closing_time |-> strip(get(row, 13)),
                 phone |-> strip(get(row, 15)),
                 hero_image |-> IF hero = <<>> THEN DEFAULT_HERO ELSE hero,
                 avatar_image |-> IF avatar = <<>> THEN DEFAULT_AVATAR ELSE avatar,
                 review_snippet |-> GS_snippet(row),
                 slug |-> GS_slugify(name)])

\* the placeholder name of build.py and build_sites.py (six CJK characters)
UnnamedStore == <<"U+672A", "U+547D", "U+540D", "U+6C34", "U+96FB", "U+884C">>
Http == <<"h", "t", "t", "p">>
NotAvailable == <<"N", "/", "A">>

\* f"{x:.1f}": exact for the fraction digits below 5 that the inputs hold
Format1f(f) ==
    CASE f.kind = "nan" -> <<"n", "a", "n">>
      [] f.kind = "inf" -> (IF f.neg THEN <<"-">> ELSE <<>>) \o <<"i", "n", "f">>
      [] f.kind = "fin" -> (IF f.neg THEN <<"-">> ELSE <<>>) \o DecimalStr(f.ip) \o <<".">>
                           \o (IF f.fr = <<>> THEN <<"0">> ELSE <<f.fr[1]>>)

\* "_x000D_" -> " "
RECURSIVE ReplaceCR(_)
ReplaceCR(s) ==
    LET tok == <<"_", "x", "0", "0", "0", "D", "_">>
    IN  IF s = <<>> THEN <<>>
        ELSE IF startswith(s, tok) THEN <<" ">> \o ReplaceCR(SubSeq(s, Len(tok) + 1, Len(s)))
        ELSE <<Head(s)>> \o ReplaceCR(Tail(s))

B_parse_store(row) ==
    LET raw == get(row, 1)
        name == IF raw = <<>> \/ startswith(raw, Http) THEN UnnamedStore ELSE raw
        rating_value == B_to_float(get(row, 2)).val
        review_value == B_to_float(get(row, 3)).val
        review_int == IF IsNone(review_value) THEN Ok(0) ELSE py_int(review_value)
    IN  IF review_int.kind = "raise" THEN review_int
        ELSE Ok([kind |-> "store",
                 name |-> name,
                 slug |-> B_slugify(name),
                 map_url |-> get(row, 0),
                 rating |-> IF IsNone(rating_value) THEN NotAvailable ELSE Format1f(rating_value),
                 review_count |-> IF IsNone(review_value) THEN <<>>
                                  ELSE DecimalStr(py_abs(review_int.val)),
                 category |-> get(row, 4),
                 address |-> get(row, 7),
                 status |-> get(row, 8),
                 closing |-> lstripSet(get(row, 9), {"U+00B7", " "}),
                 phone |-> get(row, 11),
                 image_url |-> get(row, 12),
                 default_avatar |-> get(row, 13),
                 snippet |-> strip(ReplaceCR(Join(SliceFrom(row, 14))))])

\* clean_token: None (here the empty string) for blank and icon tokens
BS_IconTokens == {<<"U+00B7">>, <<"U+F54A">>, <<"U+E934">>, <<"U+E5D4">>}
BS_clean_token(token) ==
    LET t == strip(token) IN IF t = <<>> \/ t \in BS_IconTokens THEN <<>> ELSE t

\* the tokens detect_fields classifies: the cleaned, non-empty cells of row[4:]
BS_tokens(row) ==
    LET rest == SliceFrom(row, 4)
    IN  SelectSeq([i \in 1..Len(rest) |-> BS_clean_token(rest[i])], LAMBDA t : t # <<>>)

\* one turn of the loop of parse_shops: Ok(None) when the row is passed over
BS_parse_shop(row) ==
    LET r2 == Subscript(row, 2)
        r3 == Subscript(row, 3)
        rating == IF r2.kind = "ok" THEN BS_to_float(r2.val) ELSE r2
        review_count == IF r3.kind = "ok" THEN BS_to_int(r3.val) ELSE r3
    IN  IF row = <<>> \/ ~startswith(row[1], Http) THEN Ok(None)
        ELSE IF rating.kind = "raise" THEN rating
        ELSE IF review_count.kind = "raise" THEN review_count
        ELSE Ok([kind |-> "store",
                 map_url |-> row[1],
                 name |-> IF Len(row) > 1 THEN row[2] ELSE UnnamedStore,
                 rating |-> rating.val,
                 review_count |-> review_count.val,
                 tokens |-> BS_tokens(row)])

(***************************************************************************)
(* Applying one function to one input                                      *)
(***************************************************************************)
NoArchive == [kind |-> "none"]
NoError == "none"
RunIdle ==
    /\ pc = "idle" /\ archive = NoArchive /\ log = <<>> /\ rows = <<>>
    /\ stores = <<>> /\ files = {} /\ stdout = <<>> /\ error = NoError

Apply(fn, result) ==
    /\ call = "none"
    /\ call' = fn
    /\ ret' = result
    /\ UNCHANGED <<arg, runVars>>

(***************************************************************************)
(* Data rows given to the record mappers.  Columns 0 and 4 hold u (the map *)
(* link), 1 and 5 hold n (the name), 2, 3, 6 and 7 hold s (rating and      *)
(* review count), every later column holds e; so each of the three column  *)
(* layouts finds its fields.                                               *)
(***************************************************************************)
MaxNumLen == 3
MaxRowLen == 19
NumChars == {"-", "4", "2", ".", "a", "n", "i", "f", " "}
NumStrings == SeqsUpTo(NumChars, MaxNumLen)

MkRow(L, u, n, s, e) ==
    [i \in 1..L |-> CASE (i - 1) \in {0, 4} -> u
                      [] (i - 1) \in {1, 5} -> n
                      [] (i - 1) \in {2, 3, 6, 7} -> s
                      [] OTHER -> e]

LinkCells == {Http, <<"x">>}
NameCells == {<<>>, <<" ">>, <<"x">>, <<" ", "S", " ">>}
TextCells == {<<>>, <<" ">>, <<"u", " ">>}

NumRows == {MkRow(MaxRowLen, Http, <<"x">>, s, <<"u">>) : s \in NumStrings}
ShapeRows ==
    {MkRow(L, u, n, s, e) : L \in 0..MaxRowLen, u \in LinkCells, n \in NameCells,
                            s \in {<<>>, <<"-", "4", "2">>}, e \in TextCells}
DataRows == NumRows \cup ShapeRows

InitMap == call = "none" /\ arg \in DataRows /\ ret = NoRet /\ RunIdle

Map_GS == Apply("GS_row_to_store", GS_row_to_store(arg))
Map_B == Apply("B_parse_store", B_parse_store(arg))
Map_BS == Apply("BS_parse_shop", BS_parse_shop(arg))

NextMap == Map_GS \/ Map_B \/ Map_BS
SpecMap == InitMap /\ [][NextMap]_vars

Mappers == {"GS_row_to_store", "B_parse_store", "BS_parse_shop"}
Mapped == call \in Mappers
IsStore(r) == r.kind = "ok" /\ r.val.kind = "store"

\* the columns each mapper reads the name, the rating and the review count from
NameCol(fn) == IF fn = "GS_row_to_store" THEN 5 ELSE 1
RatingCol(fn) == IF fn = "GS_row_to_store" THEN 6 ELSE 2
ReviewCol(fn) == IF fn = "GS_row_to_store" THEN 7 ELSE 3

\* a cell that float() rejects or reads as a finite number
Benign(s) == py_float(s).kind = "raise" \/ py_float(s).val.kind = "fin"
IsNumberOrAbsent(v) == v.kind \in {"none", "int", "fin", "nan", "inf"}

(***************************************************************************)
(* C3: whatever string the rating and review-count columns of a data row   *)
(* hold, the record mapper raises nothing and yields a number or "absent"  *)
(* for both fields.                                                        *)
(***************************************************************************)
C3_GarbageNumericNeverAborts ==
    (Mapped /\ Len(arg) > ReviewCol(call)) =>
        /\ ret.kind = "ok"
        /\ (IsStore(ret) /\ call # "B_parse_store") =>
              IsNumberOrAbsent(ret.val.rating) /\ IsNumberOrAbsent(ret.val.review_count)

(***************************************************************************)
(* C4: the review count of a record is absent or a non-negative integer:   *)
(* |trunc(n)| when the cell parses as the finite number n, absent when the *)
(* cell is empty or no number; the coercion returns for every string.      *)
(***************************************************************************)
C4_ReviewCountMagnitude ==
    LET s == get(arg, ReviewCol(call))
        f == py_float(s)
        named == strip(get(arg, 5)) # <<>>
    IN  /\ (call = "GS_row_to_store" /\ Len(arg) > 7 /\ named) =>
              /\ IsStore(ret)
              /\ ret.val.review_count.kind \in {"none", "int"}
              /\ ret.val.review_count.kind = "int" => ret.val.review_count.val >= 0
              /\ (f.kind = "ok" /\ f.val.kind = "fin") => ret.val.review_count = PyInt(f.val.ip)
              /\ f.kind = "raise" => IsNone(ret.val.review_count)
        /\ (call = "B_parse_store" /\ Len(arg) > 3) =>
              /\ IsStore(ret)
              /\ (f.kind = "ok" /\ f.val.kind = "fin") => ret.val.review_count = DecimalStr(f.val.ip)
              /\ f.kind = "raise" => ret.val.review_count = <<>>

(***************************************************************************)
(* C5: a data row whose name cell is empty or blank yields no record.      *)
(***************************************************************************)
C5_EmptyNameNoRecord ==
    (Mapped /\ Len(arg) > NameCol(call) /\ strip(get(arg, NameCol(call))) = <<>>) =>
        ~IsStore(ret)

(***************************************************************************)
(* C6: a data row of any length is mapped without an exception (numeric    *)
(* cells being finite numbers or text), and each field whose column lies   *)
(* past the end of the row is empty, absent or the default.                *)
(***************************************************************************)
C6_ShortRowsTolerated ==
    (Mapped /\ Benign(get(arg, RatingCol(call))) /\ Benign(get(arg, ReviewCol(call)))) =>
        /\ ret.kind = "ok"
        /\ (IsStore(ret) /\ call = "GS_row_to_store") =>
              /\ Len(arg) <= 4 => ret.val.map_url = <<>>
              /\ Len(arg) <= 6 => IsNone(ret.val.rating)
              /\ Len(arg) <= 7 => IsNone(ret.val.review_count)
              /\ Len(arg) <= 8 => ret.val.category = <<>>
              /\ Len(arg) <= 11 => ret.val.address = <<>>
              /\ Len(arg) <= 12 => ret.val.status = <<>>
              /\ Len(arg) <= 13 => ret.val.closing_time = <<>>
              /\ Len(arg) <= 15 => ret.val.phone = <<>>
              /\ Len(arg) <= 16 => ret.val.hero_image = DEFAULT_HERO
              /\ Len(arg) <= 17 => ret.val.avatar_image = DEFAULT_AVATAR
              /\ Len(arg) <= 18 => ret.val.review_snippet = <<>>
        /\ (IsStore(ret) /\ call = "B_parse_store") =>
              /\ Len(arg) <= 0 => ret.val.map_url = <<>>
              /\ Len(arg) <= 2 => ret.val.rating = NotAvailable
              /\ Len(arg) <= 3 => ret.val.review_count = <<>>
              /\ Len(arg) <= 4 => ret.val.category = <<>>
              /\ Len(arg) <= 7 => ret.val.address = <<>>
              /\ Len(arg) <= 8 => ret.val.status = <<>>
              /\ Len(arg) <= 9 => ret.val.closing = <<>>
              /\ Len(arg) <= 11 => ret.val.phone = <<>>
              /\ Len(arg) <= 12 => ret.val.image_url = <<>>
              /\ Len(arg) <= 14 => ret.val.snippet = <<>>

(***************************************************************************)
(* Display names given to the slug generators: every short name over       *)
(* SlugChars, and long names (a run of B_SlugMax - 2 .. B_SlugMax + 1      *)
(* equal characters between two short affixes) that reach the truncation.  *)
(***************************************************************************)
MaxShortName == 3
MaxAffix == 2
SlugChars == {"a", "A", "1", "-", " ", "_", "!", "U+6C34", "U+00E9"}
AffixChars == {"a", "-", " "}

ShortNames == SeqsUpTo(SlugChars, MaxShortName)
LongNames ==
    {pre \o Rep(c, k) \o suf : pre \in SeqsUpTo(AffixChars, MaxAffix),
                               suf \in SeqsUpTo(AffixChars, MaxAffix),
                               c \in {"a", "U+6C34"},
                               k \in (B_SlugMax - 2)..(B_SlugMax + 1)}
SlugNames == ShortNames \cup LongNames

InitSlug == call = "none" /\ arg \in SlugNames /\ ret = NoRet /\ RunIdle

Slug_B == Apply("B_slugify", Ok(B_slugify(arg)))
Slug_GS == Apply("GS_slugify", Ok(GS_slugify(arg)))
Slug_BS == Apply("BS_slugify", Ok(BS_slugify(arg, 1)))

\* slugify(slugify(x)): the slug of the first call is given to the second
Again(fn, fn2, result) ==
    /\ call = fn
    /\ call' = fn2
    /\ ret' = [kind |-> "ok", val |-> result, of |-> ret.val]
    /\ UNCHANGED <<arg, runVars>>

Slug_B_again == Again("B_slugify", "B_slugify_twice", B_slugify(ret.val))
Slug_GS_again == Again("GS_slugify", "GS_slugify_twice", GS_slugify(ret.val))

NextSlug == Slug_B \/ Slug_GS \/ Slug_BS \/ Slug_B_again \/ Slug_GS_again
SpecSlug == InitSlug /\ [][NextSlug]_vars

NoDoubleDash(s) == \A i \in 1..(Len(s) - 1) : ~(s[i] = "-" /\ s[i + 1] = "-")
WellFormedSlug(s) ==
    /\ s # <<>>
    /\ \A i \in 1..Len(s) : s[i] \in AsciiLower \cup Digits \cup CJK \cup {"-"}
    /\ NoDoubleDash(s)
    /\ s[1] # "-" /\ s[Len(s)] # "-"
    /\ Len(s) <= B_SlugMax

(***************************************************************************)
(* C8: every slug is non-empty, made of lowercase ASCII letters, digits,   *)
(* CJK characters and single inner separators, at most 60 characters long, *)
(* and the fixed fallback token when nothing of the name remains.          *)
(***************************************************************************)
C8_SlugWellFormed ==
    call \in {"B_slugify", "GS_slugify", "BS_slugify"} =>
        /\ WellFormedSlug(ret.val)
        /\ (\A i \in 1..Len(arg) : arg[i] \notin AsciiLower \cup AsciiUpper \cup Digits \cup CJK)
              => ret.val = SlugFallback

(***************************************************************************)
(* C9: slugify(slugify(x)) = slugify(x) for every name x, for the slug     *)
(* generators of build.py and generate_sites.py.                           *)
(***************************************************************************)
C9_SlugifyIdempotent ==
    call \in {"B_slugify_twice", "GS_slugify_twice"} => ret.val = ret.of

\* a name cut at the maximum length, where the cut exposed a separator: 59
\* letters, a separator at position 60 and a letter after it
C9_Witness ==
    /\ call = "B_slugify_twice"
    /\ Len(arg) = B_SlugMax + 1
    /\ \A i \in 1..(B_SlugMax - 1) : arg[i] = "a"
    /\ arg[B_SlugMax] = "-" /\ arg[B_SlugMax + 1] = "a"
    /\ ret.of = Rep("a", B_SlugMax - 1)
    /\ ret.val = ret.of

(***************************************************************************)
(* The two XML parts.  The shared-string part is the list of its <si>      *)
(* entries, each the list of the texts of its <t> runs in document order.  *)
(* A worksheet row is the list of its <c> cells: r the cell reference,     *)
(* t the type attribute, hasv whether a <v> node is present, v its text.   *)
(***************************************************************************)
\* int(str) on digit strings
py_int_str(s) ==
    LET t == strip(s)
        neg == t # <<>> /\ Head(t) = "-"
        body == IF neg THEN Tail(t) ELSE t
    IN  IF body # <<>> /\ IsDigits(body)
        THEN Ok(IF neg THEN 0 - DecimalVal(body) ELSE DecimalVal(body))
        ELSE Raise("ValueError")

\* list[n]: a negative n counts from the end
ListIndex(list, n) ==
    IF n >= 0 /\ n < Len(list) THEN Ok(list[n + 1])
    ELSE IF n < 0 /\ 0 - n <= Len(list) THEN Ok(list[Len(list) + n + 1])
    ELSE Raise("IndexError")

\* shared[int(val)]
SharedLookup(shared, val) ==
    LET n == py_int_str(val) IN IF n.kind = "raise" THEN n ELSE ListIndex(shared, n.val)

GS_load_shared_strings(sst) == [i \in 1..Len(sst) |-> Join(sst[i])]
BS_load_shared_strings(sst) == [i \in 1..Len(sst) |-> Join(sst[i])]
\* every <t> of the document is one element
B_load_strings(sst) == Join(sst)

RECURSIVE LettersPrefix(_)
LettersPrefix(ref) ==
    IF ref # <<>> /\ Head(ref) \in AsciiUpper THEN <<Head(ref)>> \o LettersPrefix(Tail(ref))
    ELSE <<>>

RECURSIVE LettersVal(_)
LettersVal(ls) ==
    IF ls = <<>> THEN 0 ELSE LettersVal(SubSeq(ls, 1, Len(ls) - 1)) * 26 + LetterVal(ls[Len(ls)])

\* 1-based column of a cell reference; 1 when it starts with no letter
column_index(cell_ref) ==
    LET letters == LettersPrefix(cell_ref)
    IN  IF letters = <<>> THEN 1 ELSE LettersVal(letters)

\* the loop over the cells of one row in load_sheet_rows
RECURSIVE GS_row_cells(_, _, _, _)
GS_row_cells(cells, shared, row_vals, current_col) ==
    IF cells = <<>> THEN Ok(row_vals)
    ELSE LET cell == Head(cells)
             val == IF cell.t = "s" THEN SharedLookup(shared, cell.v) ELSE Ok(cell.v)
             idx == column_index(cell.r)
             pad == IF current_col < idx THEN idx - current_col ELSE 0
         IN  IF ~cell.hasv
             THEN GS_row_cells(Tail(cells), shared, Append(row_vals, <<>>), current_col)
             ELSE IF val.kind = "raise" THEN val
             ELSE GS_row_cells(Tail(cells), shared,
                               row_vals \o Rep(<<>>, pad) \o <<val.val>>, current_col + pad + 1)

GS_load_sheet_row(sst, cells) == GS_row_cells(cells, GS_load_shared_strings(sst), <<>>, 1)

RECURSIVE B_row_cells(_, _, _)
B_row_cells(cells, strings, values) ==
    IF cells = <<>> THEN Ok(values)
    ELSE LET cell == Head(cells)
             value == IF ~cell.hasv THEN Ok(<<>>)
                      ELSE IF cell.t = "s" /\ cell.v # <<>> THEN SharedLookup(strings, cell.v)
                      ELSE Ok(cell.v)
         IN  IF value.kind = "raise" THEN value
             ELSE B_row_cells(Tail(cells), strings, Append(values, value.val))

B_load_row(sst, cells) == B_row_cells(cells, B_load_strings(sst), <<>>)

RECURSIVE BS_row_cells(_, _, _)
BS_row_cells(cells, shared, values) ==
    IF cells = <<>> THEN Ok(values)
    ELSE LET cell == Head(cells)
             value == IF ~cell.hasv THEN Ok(<<>>)
                      ELSE IF cell.t = "s" THEN SharedLookup(shared, cell.v)
                      ELSE Ok(cell.v)
         IN  IF value.kind = "raise" THEN value
             ELSE BS_row_cells(Tail(cells), shared, Append(values, value.val))

BS_load_row(sst, cells) == BS_row_cells(cells, BS_load_shared_strings(sst), <<>>)

(***************************************************************************)
(* Decoding one worksheet row against a shared-string part                 *)
(***************************************************************************)
Decode_GS == Apply("GS_load_sheet_rows", GS_load_sheet_row(arg.sst, arg.cells))
Decode_B == Apply("B_load_rows", B_load_row(arg.sst, arg.cells))
Decode_BS == Apply("BS_load_rows", BS_load_row(arg.sst, arg.cells))
NextDecode == Decode_GS \/ Decode_B \/ Decode_BS
Decoders == {"GS_load_sheet_rows", "B_load_rows", "BS_load_rows"}

\* Worksheet rows: each of the columns 1..MaxCol holds no cell, a cell with no
\* value node, a cell with a literal value, or a cell that refers to a shared
\* string; the cells come in column order, as the format writes them.
MaxCol == 3
CellRef(col) == <<UpperSeq[col], "2">>
Absent == [r |-> <<>>, t |-> "absent", hasv |-> FALSE, v |-> <<>>]
CellChoices(col, nshared) ==
    {Absent,
     [r |-> CellRef(col), t |-> "n", hasv |-> FALSE, v |-> <<>>],
     [r |-> CellRef(col), t |-> "n", hasv |-> TRUE, v |-> <<"x">>]}
    \cup {[r |-> CellRef(col), t |-> "s", hasv |-> TRUE, v |-> DecimalStr(i)] : i \in 0..(nshared - 1)}
SheetRows(nshared) ==
    {SelectSeq(f, LAMBDA c : c.t # "absent") :
        f \in {g \in [1..MaxCol -> UNION {CellChoices(col, nshared) : col \in 1..MaxCol}] :
                  \A col \in 1..MaxCol : g[col] \in CellChoices(col, nshared)}}

\* a shared-string part of two plain entries
PlainSst == << << <<"p">> >>, << <<"q">> >> >>

InitSheet ==
    /\ call = "none" /\ ret = NoRet /\ RunIdle
    /\ arg \in {[sst |-> PlainSst, cells |-> cs] : cs \in SheetRows(Len(PlainSst))}
SpecSheet == InitSheet /\ [][NextDecode]_vars

\* Shared-string parts: up to MaxSi entries of up to MaxRuns text runs each,
\* and one cell of type s that refers to entry i.
MaxSi == 2
MaxRuns == 2
RunTexts == {<<"a">>, <<"b">>}
SiEntries == SeqsUpTo(RunTexts, MaxRuns) \ {<<>>}
SharedParts == SeqsUpTo(SiEntries, MaxSi) \ {<<>>}
RefCell(i) == [r |-> CellRef(1), t |-> "s", hasv |-> TRUE, v |-> DecimalStr(i)]

InitStrings ==
    /\ call = "none" /\ ret = NoRet /\ RunIdle
    /\ arg \in {[sst |-> sst, cells |-> <<RefCell(i)>>] : sst \in SharedParts, i \in 0..(MaxSi - 1)}
    /\ DecimalVal(arg.cells[1].v) < Len(arg.sst)
SpecStrings == InitStrings /\ [][NextDecode]_vars

\* what the file format says a cell holds
CellText(sst, cell) ==
    IF ~cell.hasv THEN <<>>
    ELSE IF cell.t = "s" THEN Join(sst[DecimalVal(cell.v) + 1])
    ELSE cell.v
ColOf(cell) == LetterVal(cell.r[1])

(***************************************************************************)
(* C1: the decoded row holds each cell's value (empty when the cell has no *)
(* value node) at the zero-based position of the cell's column reference,  *)
(* the empty string at every column that has no cell, and is as long as    *)
(* the highest referenced column.  Stated for load_sheet_rows of           *)
(* generate_sites.py, the decoder that reads the column references, on the *)
(* rows whose last cell has a value node.                                  *)
(***************************************************************************)
C1_ColumnAlignment ==
    (call = "GS_load_sheet_rows" /\ arg.cells # <<>> /\ arg.cells[Len(arg.cells)].hasv) =>
        /\ ret.kind = "ok"
        /\ \A k \in 1..Len(arg.cells) :
              /\ Len(ret.val) >= ColOf(arg.cells[k])
              /\ ret.val[ColOf(arg.cells[k])] = CellText(arg.sst, arg.cells[k])
        /\ \A col \in 1..Len(ret.val) :
              (\A k \in 1..Len(arg.cells) : ColOf(arg.cells[k]) # col) => ret.val[col] = <<>>

(***************************************************************************)
(* C2: a cell of type s with raw value i decodes to the concatenation, in  *)
(* document order, of the text runs of the i-th shared-string entry.       *)
(***************************************************************************)
C2_SharedStringResolution ==
    (call \in Decoders /\ Len(arg.cells) = 1 /\ arg.cells[1].t = "s") =>
        /\ ret.kind = "ok"
        /\ ret.val = <<Join(arg.sst[DecimalVal(arg.cells[1].v) + 1])>>

(***************************************************************************)
(* Rendering.  A page is the list of its parts in document order: a part   *)
(* is a piece of the template (kind "lit", named by slot), a number the    *)
(* code formatted (kind "num"), or the text put in for a text field of the *)
(* record (kind "text": slot is the place, field the record field, text    *)
(* the characters written there).                                          *)
(***************************************************************************)
Lit(slot) == [kind |-> "lit", slot |-> slot, field |-> "", text |-> <<>>]
Num(slot, field, text) == [kind |-> "num", slot |-> slot, field |-> field, text |-> text]
Text(slot, field, text) == [kind |-> "text", slot |-> slot, field |-> field, text |-> text]

escapeChar(c) ==
    CASE c = "&" -> <<"&", "a", "m", "p", ";">>
      [] c = "<" -> <<"&", "l", "t", ";">>
      [] c = ">" -> <<"&", "g", "t", ";">>
      [] c = "\"" -> <<"&", "q", "u", "o", "t", ";">>
      [] c = "'" -> <<"&", "#", "x", "2", "7", ";">>
      [] OTHER -> <<c>>
\* html.escape(s), quote=True
html_escape(s) == Join([i \in 1..Len(s) |-> escapeChar(s[i])])

GS_rating_text(store) == IF IsNone(store.rating) THEN NotAvailable ELSE Format1f(store.rating)
GS_reviews_text(store) == IF IsNone(store.review_count) THEN <<>> ELSE DecimalStr(store.review_count.val)

GS_PAGE_TEMPLATE(title, description, content, asset_prefix) ==
    <<Lit("<title>")>> \o title \o <<Lit("<meta name='description' content='")>> \o description
    \o <<Lit("<link rel='stylesheet' href='"), Lit(asset_prefix), Lit("<main>")>>
    \o content \o <<Lit("</main>")>>

GS_card(store) ==
    << Lit("<article class='card'>"),
       Lit("<img src='"), Text("card.img.src", "hero_image", html_escape(store.hero_image)),
       Lit("alt='"), Text("card.img.alt", "name", html_escape(store.name)),
       Lit("<h2>"), Text("card.h2", "name", html_escape(store.name)),
       Lit("<p class='meta'>"), Text("card.meta", "category", html_escape(store.category)),
       Num("card.rating", "rating", GS_rating_text(store)),
       Num("card.reviews", "review_count", GS_reviews_text(store)),
       Lit("<p class='address'>"), Text("card.address", "address", html_escape(store.address)),
       Lit("<p class='status'>"), Text("card.status", "status", html_escape(store.status)),
       Text("card.status", "closing_time", html_escape(store.closing_time)),
       Lit("<p class='snippet'>"),
       IF store.review_snippet = <<>> THEN Lit("no-snippet")
       ELSE Text("card.snippet", "review_snippet", html_escape(store.review_snippet)),
       Lit("<a class='button' href='"),
       Text("card.href", "slug", <<"stores/">> \o store.slug \o <<".html">>),
       Lit("<a class='button button--ghost' href='"),
       Text("card.map.href", "map_url", html_escape(store.map_url)),
       Lit("</article>") >>

GS_render_index(ss) ==
    GS_PAGE_TEMPLATE(<<Lit("index title")>>, <<Lit("index description")>>,
                     Join([i \in 1..Len(ss) |-> GS_card(ss[i])]), "")

GS_render_detail(store) ==
    GS_PAGE_TEMPLATE(
        <<Text("title", "name", store.name), Lit("title suffix")>>,
        <<Text("description", "name", store.name), Lit("description suffix")>>,
        << Lit("<article class='detail'>"),
           Lit("<img src='"), Text("detail.img.src", "hero_image", html_escape(store.hero_image)),
           Lit("alt='"), Text("detail.img.alt", "name", html_escape(store.name)),
           Lit("<p class='kicker'>"), Text("detail.kicker", "category", html_escape(store.category)),
           Lit("<h1>"), Text("detail.h1", "name", html_escape(store.name)),
           Lit("<p class='meta'>"), Num("detail.rating", "rating", GS_rating_text(store)),
           Num("detail.reviews", "review_count", GS_reviews_text(store)),
           Lit("<li>address"), Text("detail.address", "address", html_escape(store.address)),
           Lit("<li>status"), Text("detail.status", "status", html_escape(store.status)),
           Text("detail.status", "closing_time", html_escape(store.closing_time)),
           Lit("<li>phone <a href='tel:"), Text("detail.phone.href", "phone", html_escape(store.phone)),
           Lit("'>"), Text("detail.phone", "phone", html_escape(store.phone)),
           Lit("<li>map <a href='"), Text("detail.map.href", "map_url", html_escape(store.map_url)),
           Lit("<p class='snippet'>"),
           IF store.review_snippet = <<>> THEN Lit("no-snippet")
           ELSE Text("detail.snippet", "review_snippet", html_escape(store.review_snippet)),
           Lit("<img src='"), Text("detail.avatar.src", "avatar_image", html_escape(store.avatar_image)),
           Lit("alt='"), Text("detail.avatar.alt", "name", html_escape(store.name)),
           Lit("</article>") >>,
        "../")

B_status_text(store) ==
    IF store.status # <<>> /\ store.closing # <<>>
    THEN store.status \o <<" ", "U+00B7", " ">> \o store.closing
    ELSE store.status \o store.closing

B_image(store) == IF store.image_url # <<>> THEN store.image_url ELSE store.default_avatar

B_build_card(store) ==
    << Lit("<article class=card>"),
       Lit("<img src="), Text("card.img.src", "image_url", html_escape(B_image(store))),
       Lit("alt="), Text("card.img.alt", "name", html_escape(store.name)),
       Lit("<h2><a href="),
       Text("card.href", "slug", <<"stores/">> \o store.slug \o <<"/index.html">>),
       Lit(">"), Text("card.h2", "name", html_escape(store.name)),
       Lit("<p class=card__meta>"),
       IF store.rating # NotAvailable THEN Num("card.rating", "rating", html_escape(store.rating))
       ELSE Lit("N/A"),
       Num("card.reviews", "review_count", store.review_count),
       Lit("<p class=card__meta>"), Text("card.category", "category", html_escape(store.category)),
       Lit("<p>"), Text("card.address", "address", html_escape(store.address)),
       Lit("<p class=card__status>"), Text("card.status", "status", html_escape(B_status_text(store))),
       Lit("<a class=button href="),
       Text("card.href", "slug", <<"stores/">> \o store.slug \o <<"/index.html">>),
       Lit("<a class=button button--ghost href="),
       Text("card.map.href", "map_url", html_escape(store.map_url)),
       Lit("</article>") >>

B_render_index(ss) ==
    <<Lit("<title>index</title>"), Lit("<main class=grid>")>>
    \o Join([i \in 1..Len(ss) |-> B_build_card(ss[i])]) \o <<Lit("</main>")>>

B_render_store(store) ==
    << Lit("<title>"), Text("title", "name", html_escape(store.name)),
       Lit("<h1>"), Text("detail.h1", "name", html_escape(store.name)),
       Lit("<p class=store__meta>"), Text("detail.category", "category", html_escape(store.category)),
       Lit("<p class=store__meta>"), Num("detail.rating", "rating", html_escape(store.rating)),
       Num("detail.reviews", "review_count", store.review_count),
       Lit("<p class=store__meta>"), Text("detail.status", "status", html_escape(B_status_text(store))),
       Lit("<p>"), Text("detail.address", "address", html_escape(store.address)) >>
    \o (IF store.phone # <<>>
        THEN <<Lit("<p><strong>phone"), Text("detail.phone", "phone", html_escape(store.phone))>>
        ELSE <<>>)
    \o << Lit("<a class=button href="), Text("detail.map.href", "map_url", html_escape(store.map_url)),
          Lit("<img class=store__image src="),
          Text("detail.img.src", "image_url", html_escape(B_image(store))),
          Lit("alt="), Text("detail.img.alt", "name", html_escape(store.name)),
          Lit("<section>"),
          IF store.snippet # <<>>
          THEN Text("detail.snippet", "snippet", html_escape(store.snippet))
          ELSE Lit("no-snippet") >>

(***************************************************************************)
(* Rendering the record of one data row whose text cells hold markup       *)
(***************************************************************************)
MaxHotLen == 2
HotChars == {"a", "<", ">", "&", "'", "\""}
HotStrings == SeqsUpTo(HotChars, MaxHotLen)
RenderRows == {MkRow(MaxRowLen, h, <<"x">> \o h, <<"4", ".", "2">>, h) : h \in HotStrings}

InitRender == call = "none" /\ arg \in RenderRows /\ ret = NoRet /\ RunIdle

Render_GS_detail == Apply("GS_render_detail", Ok(GS_render_detail(GS_row_to_store(arg).val)))
Render_GS_index == Apply("GS_render_index", Ok(GS_render_index(<<GS_row_to_store(arg).val>>)))
Render_B_store == Apply("B_render_store", Ok(B_render_store(B_parse_store(arg).val)))
Render_B_index == Apply("B_render_index", Ok(B_render_index(<<B_parse_store(arg).val>>)))

NextRender == Render_GS_detail \/ Render_GS_index \/ Render_B_store \/ Render_B_index
SpecRender == InitRender /\ [][NextRender]_vars

Renderers == {"GS_render_detail", "GS_render_index", "B_render_store", "B_render_index"}
Entities == {escapeChar(c) : c \in {"&", "<", ">", "\"", "'"}}
\* no character of t is read as markup: no raw <, >, quote, and no & but
\* the one that opens a character reference
NoRawMarkup(t) ==
    \A i \in 1..Len(t) :
        /\ t[i] \notin {"<", ">", "\"", "'"}
        /\ t[i] = "&" => \E e \in Entities : startswith(SubSeq(t, i, Len(t)), e)

(***************************************************************************)
(* C7: wherever a page (index or detail, title and meta description        *)
(* included) holds the text of a field of a record, the text is escaped:   *)
(* it holds no raw <, >, & or quote.                                       *)
(***************************************************************************)
C7_EveryTextEscaped ==
    call \in Renderers =>
        \A k \in 1..Len(ret.val) : ret.val[k].kind = "text" => NoRawMarkup(ret.val[k].text)

(***************************************************************************)
(* A run of main() of generate_sites.py.                                   *)
(* archive: has_shared / has_sheet tell whether the part is in the zip,    *)
(* sst and sheet are the content of the two parts.  files is the output    *)
(* tree, a set of [path, content]; log lists the archive and file-system   *)
(* operations in the order the run makes them.                             *)
(***************************************************************************)
Path(dir, name) == [dir |-> dir, name |-> name]
SharedPart == Path("zip", <<"xl/sharedStrings.xml">>)
SheetPart == Path("zip", <<"xl/worksheets/sheet1.xml">>)
XlsxPath == Path(".", <<"workbook.xlsx">>)
GS_assets_dir == Path("docs", <<"assets">>)
GS_stores_dir == Path("docs", <<"stores">>)
GS_css_path == Path("docs/assets", <<"site.css">>)
GS_index_path == Path("docs", <<"index.html">>)
GS_data_path == Path("docs", <<"stores.json">>)
\* a writer that names the page of a record after the record
GS_detail_path_by_name(store) == Path("docs/stores", store.name \o <<".html">>)
GS_detail_path(store) == Path("docs/stores", store.slug \o <<".html">>)

Op(op, path) == [op |-> op, path |-> path]
WriteOps == {"mkdir", "write"}
Logged(op, path) == \E i \in 1..Len(log) : log[i] = Op(op, path)
DetailWrites == Cardinality({i \in 1..Len(log) : log[i].op = "write" /\ log[i].path.dir = "docs/stores"})

\* a writer that leaves an existing file as it is
write_text_keep_existing(fs, path, content) ==
    IF \E f \in fs : f.path = path THEN fs
    ELSE fs \cup {[path |-> path, content |-> content]}

\* path.write_text(content): the file at path is created or replaced
write_text(fs, path, content) ==
    {f \in fs : f.path # path} \cup {[path |-> path, content |-> content]}

\* zf.read(name) of a member the archive lacks
MissingPartError == "KeyError"

STYLE_CSS == <<Lit("STYLE_CSS")>>

\* json.dumps([asdict(s) for s in stores])
GS_json(ss) ==
    Join([i \in 1..Len(ss) |->
            <<Text("json", "name", ss[i].name), Text("json", "slug", ss[i].slug),
              Text("json", "map_url", ss[i].map_url), Num("json", "rating", GS_rating_text(ss[i])),
              Num("json", "review_count", GS_reviews_text(ss[i])),
              Text("json", "category", ss[i].category), Text("json", "address", ss[i].address),
              Text("json", "status", ss[i].status), Text("json", "closing_time", ss[i].closing_time),
              Text("json", "phone", ss[i].phone), Text("json", "hero_image", ss[i].hero_image),
              Text("json", "avatar_image", ss[i].avatar_image),
              Text("json", "review_snippet", ss[i].review_snippet)>>])

Fail(exc, ops) ==
    /\ pc' = "failed"
    /\ error' = exc
    /\ log' = log \o ops
    /\ UNCHANGED <<rows, stores, files, stdout>>

\* load_stores: with zipfile.ZipFile(xlsx_path) as zf
GS_open_archive ==
    /\ pc = "start"
    /\ pc' = "opened"
    /\ log' = Append(log, Op("open", XlsxPath))
    /\ UNCHANGED <<callVars, archive, rows, stores, files, stdout, error>>

\* load_shared_strings: zf.read("xl/sharedStrings.xml"); leaving the with
\* block on the exception closes the archive
GS_read_shared_strings ==
    /\ pc = "opened"
    /\ IF archive.has_shared
       THEN /\ pc' = "strings"
            /\ log' = Append(log, Op("read", SharedPart))
            /\ UNCHANGED <<rows, stores, files, stdout, error>>
       ELSE Fail(MissingPartError, <<Op("close", XlsxPath)>>)
    /\ UNCHANGED <<callVars, archive>>

\* a reader that takes a missing worksheet part for an empty sheet
GS_read_sheet_lenient ==
    /\ pc = "strings"
    /\ pc' = "sheet"
    /\ log' = Append(log, Op("read", SheetPart))
    /\ UNCHANGED <<callVars, archive, rows, stores, files, stdout, error>>

\* load_sheet_rows: zf.read("xl/worksheets/sheet1.xml")
GS_read_sheet ==
    /\ pc = "strings"
    /\ IF archive.has_sheet
       THEN /\ pc' = "sheet"
            /\ log' = Append(log, Op("read", SheetPart))
            /\ UNCHANGED <<rows, stores, files, stdout, error>>
       ELSE Fail(MissingPartError, <<Op("close", XlsxPath)>>)
    /\ UNCHANGED <<callVars, archive>>

RowDecoded(r) ==
    IF r.kind = "raise"
    THEN Fail(r.exc, <<Op("close", XlsxPath)>>)
    ELSE /\ rows' = Append(rows, r.val)
         /\ UNCHANGED <<pc, log, stores, files, stdout, error>>

\* load_sheet_rows: one turn of the loop over the rows of the worksheet
GS_decode_row ==
    /\ pc = "sheet"
    /\ Len(rows) < Len(archive.sheet)
    /\ RowDecoded(GS_load_sheet_row(archive.sst, archive.sheet[Len(rows) + 1]))
    /\ UNCHANGED <<callVars, archive>>

\* end of the loop and of the with block
GS_close_archive ==
    /\ pc = "sheet"
    /\ Len(rows) = Len(archive.sheet)
    /\ pc' = "closed"
    /\ log' = Append(log, Op("close", XlsxPath))
    /\ UNCHANGED <<callVars, archive, rows, stores, files, stdout, error>>

RowMapped(r) ==
    IF r.kind = "raise"
    THEN Fail(r.exc, <<>>)
    ELSE /\ stores' = Append(stores, r.val)
         /\ UNCHANGED <<pc, log, rows, files, stdout, error>>

\* load_stores: one turn of [row_to_store(row) for row in rows[1:]]
GS_map_row ==
    /\ pc = "closed"
    /\ Len(stores) + 1 < Len(rows)
    /\ RowMapped(GS_row_to_store(rows[Len(stores) + 2]))
    /\ UNCHANGED <<callVars, archive>>

\* load_stores: return [s for s in stores if s is not None]
GS_filter_stores ==
    /\ pc = "closed"
    /\ Len(stores) + 1 >= Len(rows)
    /\ pc' = "mapped"
    /\ stores' = SelectSeq(stores, LAMBDA st : ~IsNone(st))
    /\ UNCHANGED <<callVars, archive, log, rows, files, stdout, error>>

\* write_site: the two mkdir calls
GS_mkdirs ==
    /\ pc = "mapped"
    /\ pc' = "dirs"
    /\ log' = log \o <<Op("mkdir", GS_assets_dir), Op("mkdir", GS_stores_dir)>>
    /\ UNCHANGED <<callVars, archive, rows, stores, files, stdout, error>>

WriteFile(path, content) ==
    /\ files' = write_text(files, path, content)
    /\ log' = Append(log, Op("write", path))

GS_write_css ==
    /\ pc = "dirs"
    /\ pc' = "css"
    /\ WriteFile(GS_css_path, STYLE_CSS)
    /\ UNCHANGED <<callVars, archive, rows, stores, stdout, error>>

GS_write_index ==
    /\ pc = "css"
    /\ pc' = "details"
    /\ WriteFile(GS_index_path, GS_render_index(stores))
    /\ UNCHANGED <<callVars, archive, rows, stores, stdout, error>>

\* one turn of: for store in stores
GS_write_detail ==
    /\ pc = "details"
    /\ DetailWrites < Len(stores)
    /\ LET store == stores[DetailWrites + 1]
       IN  WriteFile(GS_detail_path(store), GS_render_detail(store))
    /\ UNCHANGED <<callVars, pc, archive, rows, stores, stdout, error>>

GS_write_json ==
    /\ pc = "details"
    /\ DetailWrites = Len(stores)
    /\ pc' = "json"
    /\ WriteFile(GS_data_path, GS_json(stores))
    /\ UNCHANGED <<callVars, archive, rows, stores, stdout, error>>

\* print(f"Generated {len(stores)} store pages in ...")
GS_print ==
    /\ pc = "json"
    /\ pc' = "done"
    /\ stdout' = Append(stdout, <<"Generated">> \o DecimalStr(Len(stores)) \o <<"store pages">>)
    /\ UNCHANGED <<callVars, archive, log, rows, stores, files, error>>

Next ==
    \/ GS_open_archive
    \/ GS_read_shared_strings
    \/ GS_read_sheet
    \/ GS_decode_row
    \/ GS_close_archive
    \/ GS_map_row
    \/ GS_filter_stores
    \/ GS_mkdirs
    \/ GS_write_css
    \/ GS_write_index
    \/ GS_write_detail
    \/ GS_write_json
    \/ GS_print

(***************************************************************************)
(* The workbooks of a run: a header row and up to MaxDataRows data rows.   *)
(* A data row has cells in columns E (map link), F (name, left out when    *)
(* empty), G (rating) and H (review count).  The output tree is empty or   *)
(* holds the index page of an earlier run.                                 *)
(***************************************************************************)
MaxDataRows == 2
ValueCell(col, row, v) == [r |-> <<UpperSeq[col], row>>, t |-> "n", hasv |-> TRUE, v |-> v]
HeaderRow == << [r |-> <<"A", "1">>, t |-> "s", hasv |-> TRUE, v |-> <<"0">>],
                ValueCell(6, "1", <<"n", "a", "m", "e">>) >>
RunNames == {<<>>, <<"a">>, <<"a", "!">>, <<"!">>, <<"b", "<">>}
RunReviews == {<<"-", "3">>, <<"i", "n", "f">>}
RunRow(name, review) ==
    <<ValueCell(5, "2", Http)>>
    \o (IF name = <<>> THEN <<>> ELSE <<ValueCell(6, "2", name)>>)
    \o <<ValueCell(7, "2", <<"4", ".", "2">>), ValueCell(8, "2", review)>>
RunRows == {RunRow(n, v) : n \in RunNames, v \in RunReviews}
OldIndex == [path |-> GS_index_path, content |-> <<Lit("index of an earlier run")>>]

Init ==
    /\ call = "none" /\ arg = <<>> /\ ret = NoRet
    /\ pc = "start"
    /\ archive \in {[kind |-> "xlsx", has_shared |-> hs, has_sheet |-> hw,
                     sst |-> IF hs THEN PlainSst ELSE <<>>,
                     sheet |-> IF hw THEN <<HeaderRow>> \o data ELSE <<>>] :
                        hs \in BOOLEAN, hw \in BOOLEAN, data \in SeqsUpTo(RunRows, MaxDataRows)}
    /\ log = <<>> /\ rows = <<>> /\ stores = <<>> /\ stdout = <<>> /\ error = NoError
    /\ files \in {{}, {OldIndex}}

Spec == Init /\ [][Next]_vars

MissingPart == ~archive.has_shared \/ ~archive.has_sheet
InArchiveReader == pc \in {"start", "opened", "strings"}

(***************************************************************************)
(* C10: when the shared-string part or the first-worksheet part is missing *)
(* from the archive, the run never leaves the archive reader: it goes on   *)
(* until it fails with the missing-part error, decodes and maps nothing,   *)
(* prints nothing, and creates or overwrites no file or directory.         *)
(***************************************************************************)
C10_MissingPartAborts ==
    MissingPart =>
        /\ InArchiveReader \/ pc = "failed"
        /\ InArchiveReader => ENABLED Next
        /\ pc = "failed" => error = MissingPartError
        /\ \A i \in 1..Len(log) : log[i].op \notin WriteOps
        /\ files \in {{}, {OldIndex}}
        /\ rows = <<>> /\ stores = <<>> /\ stdout = <<>>

\* a run on an archive that holds the shared strings but no worksheet has
\* failed, leaving the index page of the earlier run as it was
C10_Witness ==
    /\ archive.has_shared /\ ~archive.has_sheet
    /\ pc = "failed" /\ error = MissingPartError
    /\ Logged("read", SharedPart)
    /\ files = {OldIndex}

(***************************************************************************)
(* A run of main() of build.py.  load_strings and load_rows each open the  *)
(* workbook by its path; the worksheet rows are decoded after the second   *)
(* with block is left.  A record's page is docs/stores/<slug>/index.html.  *)
(***************************************************************************)
B_assets_dir == Path("docs", <<"assets">>)
B_index_path == Path("docs", <<"index.html">>)
B_style_path == Path("docs/assets", <<"style.css">>)
B_store_dir(store) == Path("docs/stores", store.slug)
B_detail_path(store) == Path("docs/stores", store.slug \o <<"/index.html">>)
B_STYLE == <<Lit("STYLE")>>

\* load_strings(SOURCE_PATH): open, read the shared strings, close
B_call_load_strings ==
    /\ pc = "B_start"
    /\ IF archive.has_shared
       THEN /\ pc' = "B_strings"
            /\ log' = log \o <<Op("open", XlsxPath), Op("read", SharedPart), Op("close", XlsxPath)>>
            /\ UNCHANGED <<rows, stores, files, stdout, error>>
       ELSE Fail(MissingPartError, <<Op("open", XlsxPath), Op("close", XlsxPath)>>)
    /\ UNCHANGED <<callVars, archive>>

\* load_rows(SOURCE_PATH, strings): open again, read the worksheet, close
B_call_load_rows ==
    /\ pc = "B_strings"
    /\ IF archive.has_sheet
       THEN /\ pc' = "B_sheet"
            /\ log' = log \o <<Op("open", XlsxPath), Op("read", SheetPart), Op("close", XlsxPath)>>
            /\ UNCHANGED <<rows, stores, files, stdout, error>>
       ELSE Fail(MissingPartError, <<Op("open", XlsxPath), Op("close", XlsxPath)>>)
    /\ UNCHANGED <<callVars, archive>>

B_RowDecoded(r) ==
    IF r.kind = "raise"
    THEN Fail(r.exc, <<>>)
    ELSE /\ rows' = Append(rows, r.val)
         /\ UNCHANGED <<pc, log, stores, files, stdout, error>>

\* load_rows: one turn of the loop over the rows of the worksheet
B_decode_row ==
    /\ pc = "B_sheet"
    /\ Len(rows) < Len(archive.sheet)
    /\ B_RowDecoded(B_load_row(archive.sst, archive.sheet[Len(rows) + 1]))
    /\ UNCHANGED <<callVars, archive>>

\* load_rows: return rows
B_rows_loaded ==
    /\ pc = "B_sheet"
    /\ Len(rows) = Len(archive.sheet)
    /\ pc' = "B_loaded"
    /\ UNCHANGED <<callVars, archive, log, rows, stores, files, stdout, error>>

\* main: one turn of [parse_store(row) for row in rows[1:]]
B_map_row ==
    /\ pc = "B_loaded"
    /\ Len(stores) + 1 < Len(rows)
    /\ RowMapped(B_parse_store(rows[Len(stores) + 2]))
    /\ UNCHANGED <<callVars, archive>>

\* write_files: the three mkdir calls
B_mkdirs ==
    /\ pc = "B_loaded"
    /\ Len(stores) + 1 >= Len(rows)
    /\ pc' = "B_dirs"
    /\ log' = log \o <<Op("mkdir", Path(".", <<"docs">>)), Op("mkdir", B_assets_dir),
                       Op("mkdir", GS_stores_dir)>>
    /\ UNCHANGED <<callVars, archive, rows, stores, files, stdout, error>>

B_write_index ==
    /\ pc = "B_dirs"
    /\ pc' = "B_details"
    /\ WriteFile(B_index_path, B_render_index(stores))
    /\ UNCHANGED <<callVars, archive, rows, stores, stdout, error>>

\* one turn of: for store in stores (mkdir of the record's directory, then
\* the page)
B_write_store ==
    /\ pc = "B_details"
    /\ DetailWrites < Len(stores)
    /\ files' = write_text(files, B_detail_path(stores[DetailWrites + 1]),
                           B_render_store(stores[DetailWrites + 1]))
    /\ log' = log \o <<Op("mkdir", B_store_dir(stores[DetailWrites + 1])),
                       Op("write", B_detail_path(stores[DetailWrites + 1]))>>
    /\ UNCHANGED <<callVars, pc, archive, rows, stores, stdout, error>>

B_write_style ==
    /\ pc = "B_details"
    /\ DetailWrites = Len(stores)
    /\ pc' = "B_style"
    /\ WriteFile(B_style_path, B_STYLE)
    /\ UNCHANGED <<callVars, archive, rows, stores, stdout, error>>

\* print(f"Generated {len(stores)} store pages in ...")
B_print ==
    /\ pc = "B_style"
    /\ pc' = "B_done"
    /\ stdout' = Append(stdout, <<"Generated">> \o DecimalStr(Len(stores)) \o <<"store pages">>)
    /\ UNCHANGED <<callVars, archive, log, rows, stores, files, error>>

NextB ==
    \/ B_call_load_strings
    \/ B_call_load_rows
    \/ B_decode_row
    \/ B_rows_loaded
    \/ B_map_row
    \/ B_mkdirs
    \/ B_write_index
    \/ B_write_store
    \/ B_write_style
    \/ B_print

\* The workbooks of a run of build.py: link, name, rating and review count
\* in columns A to D.
B_RunRow(name, review) ==
    <<ValueCell(1, "2", Http), ValueCell(2, "2", name),
      ValueCell(3, "2", <<"4", ".", "2">>), ValueCell(4, "2", review)>>
B_RunRows == {B_RunRow(n, v) : n \in {<<"a">>, <<"a", "!">>, <<"b">>}, v \in RunReviews}

InitB ==
    /\ call = "none" /\ arg = <<>> /\ ret = NoRet
    /\ pc = "B_start"
    /\ archive \in {[kind |-> "xlsx", has_shared |-> hs, has_sheet |-> hw,
                     sst |-> IF hs THEN PlainSst ELSE <<>>,
                     sheet |-> IF hw THEN <<HeaderRow>> \o data ELSE <<>>] :
                        hs \in BOOLEAN, hw \in BOOLEAN, data \in SeqsUpTo(B_RunRows, MaxDataRows)}
    /\ log = <<>> /\ rows = <<>> /\ stores = <<>> /\ stdout = <<>> /\ error = NoError
    /\ files \in {{}, {OldIndex}}

SpecB == InitB /\ [][NextB]_vars

\* the run has completed
Done == pc \in {"done", "B_done", "BS_done"}
ArchiveOps == {"open", "read", "close"}
Opens == {i \in 1..Len(log) : log[i].op = "open"}
\* the archive is open at position i of the log: an open comes before it
\* with no close in between
OpenAt(i) ==
    \E o \in Opens : o < i /\ \A k \in (o + 1)..(i - 1) : log[k].op # "close"

(***************************************************************************)
(* C11: in every run the archive is opened at most once, and exactly once  *)
(* when the run completes; every read of a part happens while that open    *)
(* is in force; both parts have been read and the archive closed before    *)
(* the first directory or file is written; no archive operation follows    *)
(* an output write.                                                        *)
(***************************************************************************)
C11_ReadBeforeWrite ==
    /\ Cardinality(Opens) <= 1
    /\ Done => Cardinality(Opens) = 1
    /\ \A i \in 1..Len(log) : log[i].op = "read" => OpenAt(i)
    /\ \A i \in 1..Len(log) : log[i].op \in WriteOps =>
          /\ \E j \in 1..(i - 1) : log[j] = Op("read", SharedPart)
          /\ \E j \in 1..(i - 1) : log[j] = Op("read", SheetPart)
          /\ \E j \in 1..(i - 1) : log[j].op = "close"
          /\ \A j \in (i + 1)..Len(log) : log[j].op \notin ArchiveOps

(***************************************************************************)
(* A run of main() of build_sites.py.  parse_shops visits every row that   *)
(* load_rows returns; stores holds one entry per row visited, None for a   *)
(* row that is passed over, until the slugs are made: from then on it is   *)
(* zip(shops, slugs).  A shop's page is docs/shops/<slug>.html.            *)
(***************************************************************************)
BS_docs_dir == Path(".", <<"docs">>)
BS_shops_dir == Path("docs", <<"shops">>)
BS_styles_path == Path("docs", <<"styles.css">>)
BS_index_path == Path("docs", <<"index.html">>)
BS_shop_path(slug) == Path("docs/shops", slug \o <<".html">>)
BS_ShopWrites == Cardinality({i \in 1..Len(log) : log[i].op = "write" /\ log[i].path.dir = "docs/shops"})

BS_rating_text(shop) == IF IsNone(shop.rating) THEN <<"U+2014">> ELSE Format1f(shop.rating)

\* the items of the page that come from the cells after the review count:
\* one for each token that detect_fields keeps
BS_details(shop) ==
    [i \in 1..Len(shop.tokens) |-> Text("detail.li", "tokens", html_escape(shop.tokens[i]))]

BS_render_shop_page(shop, slug) ==
    << Lit("<title>"), Text("title", "name", html_escape(shop.name)),
       Lit("<h1>"), Text("detail.h1", "name", html_escape(shop.name)),
       Lit("<span class='rating'>"), Num("detail.rating", "rating", BS_rating_text(shop)),
       Lit("<span class='reviews'>"),
       Num("detail.reviews", "review_count",
           IF IsNone(shop.review_count) THEN <<"U+2014">> ELSE DecimalStr(shop.review_count.val)),
       Lit("<a class='map-button' href='"),
       Text("detail.map.href", "map_url", html_escape(shop.map_url)),
       Lit("<ul class='details'>") >>
    \o BS_details(shop) \o <<Lit("</ul>")>>

BS_card(shop, slug) ==
    << Lit("<article class='card'>"),
       Lit("<h2><a href='"), Text("card.href", "slug", <<"shops/">> \o slug \o <<".html">>),
       Lit("'>"), Text("card.h2", "name", html_escape(shop.name)),
       Lit("<p class='meta'>"), Num("card.rating", "rating", BS_rating_text(shop)),
       Num("card.reviews", "review_count",
           IF IsNone(shop.review_count) THEN <<"N", "o", "n", "e">>
           ELSE DecimalStr(shop.review_count.val)),
       Lit("<p class='address'>"), Lit("no-address"),
       Lit("<a class='map-inline' href='"),
       Text("card.map.href", "map_url", html_escape(shop.map_url)),
       Lit("</article>") >>

BS_render_index(pairs) ==
    <<Lit("<title>index</title>"), Lit("<main class='grid'>")>>
    \o Join([i \in 1..Len(pairs) |-> BS_card(pairs[i].shop, pairs[i].slug)]) \o <<Lit("</main>")>>

\* load_rows: open the workbook, read the shared strings, read the worksheet
BS_open_and_read ==
    /\ pc = "BS_start"
    /\ IF archive.has_shared /\ archive.has_sheet
       THEN /\ pc' = "BS_sheet"
            /\ log' = log \o <<Op("open", XlsxPath), Op("read", SharedPart), Op("read", SheetPart)>>
            /\ UNCHANGED <<rows, stores, files, stdout, error>>
       ELSE IF archive.has_shared
       THEN Fail(MissingPartError,
                 <<Op("open", XlsxPath), Op("read", SharedPart), Op("close", XlsxPath)>>)
       ELSE Fail(MissingPartError, <<Op("open", XlsxPath), Op("close", XlsxPath)>>)
    /\ UNCHANGED <<callVars, archive>>

\* load_rows: one turn of the loop over the rows of the worksheet
BS_decode_row ==
    /\ pc = "BS_sheet"
    /\ Len(rows) < Len(archive.sheet)
    /\ RowDecoded(BS_load_row(archive.sst, archive.sheet[Len(rows) + 1]))
    /\ UNCHANGED <<callVars, archive>>

\* load_rows: return rows, leaving the with block
BS_close_archive ==
    /\ pc = "BS_sheet"
    /\ Len(rows) = Len(archive.sheet)
    /\ pc' = "BS_closed"
    /\ log' = Append(log, Op("close", XlsxPath))
    /\ UNCHANGED <<callVars, archive, rows, stores, files, stdout, error>>

\* parse_shops: one turn of: for row in load_rows()
BS_parse_row ==
    /\ pc = "BS_closed"
    /\ Len(stores) < Len(rows)
    /\ RowMapped(BS_parse_shop(rows[Len(stores) + 1]))
    /\ UNCHANGED <<callVars, archive>>

BS_zip(shops) == [i \in 1..Len(shops) |-> [shop |-> shops[i], slug |-> BS_slugify(shops[i].name, i)]]

\* main: slugs = [slugify(shop['name'], i + 1) for i, shop in enumerate(shops)]
BS_make_slugs ==
    /\ pc = "BS_closed"
    /\ Len(stores) = Len(rows)
    /\ pc' = "BS_slugs"
    /\ stores' = BS_zip(SelectSeq(stores, LAMBDA st : ~IsNone(st)))
    /\ UNCHANGED <<callVars, archive, log, rows, files, stdout, error>>

\* write_file(path, content): path.parent.mkdir, path.write_text
BS_write_file(dir, path, content) ==
    /\ files' = write_text(files, path, content)
    /\ log' = log \o <<Op("mkdir", dir), Op("write", path)>>

BS_write_styles ==
    /\ pc = "BS_slugs"
    /\ pc' = "BS_styles"
    /\ BS_write_file(BS_docs_dir, BS_styles_path, <<Lit("styles")>>)
    /\ UNCHANGED <<callVars, archive, rows, stores, stdout, error>>

BS_write_index ==
    /\ pc = "BS_styles"
    /\ pc' = "BS_details"
    /\ BS_write_file(BS_docs_dir, BS_index_path, BS_render_index(stores))
    /\ UNCHANGED <<callVars, archive, rows, stores, stdout, error>>

\* one turn of: for i, (shop, slug) in enumerate(zip(shops, slugs), start=1)
BS_write_shop ==
    /\ pc = "BS_details"
    /\ BS_ShopWrites < Len(stores)
    /\ BS_write_file(BS_shops_dir, BS_shop_path(stores[BS_ShopWrites + 1].slug),
                     BS_render_shop_page(stores[BS_ShopWrites + 1].shop,
                                         stores[BS_ShopWrites + 1].slug))
    /\ UNCHANGED <<callVars, pc, archive, rows, stores, stdout, error>>

\* main returns; it prints nothing
BS_return ==
    /\ pc = "BS_details"
    /\ BS_ShopWrites = Len(stores)
    /\ pc' = "BS_done"
    /\ UNCHANGED <<callVars, archive, log, rows, stores, files, stdout, error>>

NextBS ==
    \/ BS_open_and_read
    \/ BS_decode_row
    \/ BS_close_archive
    \/ BS_parse_row
    \/ BS_make_slugs
    \/ BS_write_styles
    \/ BS_write_index
    \/ BS_write_shop
    \/ BS_return

\* The workbooks of a run of build_sites.py: link, name, rating and review
\* count in columns A to D; the first row is a header of column titles or
\* a row that reads like a listing.
BS_RunRow(n, link, name, review) ==
    <<ValueCell(1, n, link), ValueCell(2, n, name),
      ValueCell(3, n, <<"4", ".", "2">>), ValueCell(4, n, review)>>
BS_RunRows ==
    {BS_RunRow("2", Http, name, <<"-", "3">>) : name \in {<<"a">>, <<"a", "!">>, <<"!">>}}
    \cup {BS_RunRow("2", Http, <<"a">>, <<"i", "n", "f">>), BS_RunRow("2", <<"x">>, <<"a">>, <<"3">>)}
BS_Headers == {HeaderRow, BS_RunRow("1", Http, <<"h">>, <<"5">>)}

InitBS ==
    /\ call = "none" /\ arg = <<>> /\ ret = NoRet
    /\ pc = "BS_start"
    /\ archive \in {[kind |-> "xlsx", has_shared |-> hs, has_sheet |-> hw,
                     sst |-> IF hs THEN PlainSst ELSE <<>>,
                     sheet |-> IF hw THEN <<h>> \o data ELSE <<>>] :
                        hs \in BOOLEAN, hw \in BOOLEAN, h \in BS_Headers,
                        data \in SeqsUpTo(BS_RunRows, MaxDataRows)}
    /\ log = <<>> /\ rows = <<>> /\ stores = <<>> /\ stdout = <<>> /\ error = NoError
    /\ files \in {{}, {OldIndex}}

SpecBS == InitBS /\ [][NextBS]_vars

\* the run has finished mapping rows to records
GS_Mapped == pc \in {"mapped", "dirs", "css", "details", "json", "done"}
BS_Mapped == pc \in {"BS_slugs", "BS_styles", "BS_details", "BS_done"}
B_MappedAll == pc \in {"B_dirs", "B_details", "B_style", "B_done"}
NotNone(r) == ~IsNone(r)
\* the rows after the first, in order
LaterRows == [i \in 1..(Len(rows) - 1) |-> rows[i + 1]]

(***************************************************************************)
(* C12: the first row is discarded and every later row is given to the     *)
(* record mapper: once the rows are mapped, the records of the run are     *)
(* the records that the mapper yields for rows 2, 3, ... in order, so the  *)
(* first row contributes no record (and hence no card and no page),        *)
(* whatever it holds.                                                      *)
(***************************************************************************)
C12_HeaderDiscarded ==
    /\ GS_Mapped =>
          stores = SelectSeq([i \in 1..Len(LaterRows) |-> GS_row_to_store(LaterRows[i]).val], NotNone)
    /\ B_MappedAll =>
          stores = [i \in 1..Len(LaterRows) |-> B_parse_store(LaterRows[i]).val]
    /\ BS_Mapped =>
          [i \in 1..Len(stores) |-> stores[i].shop]
            = SelectSeq([i \in 1..Len(LaterRows) |-> BS_parse_shop(LaterRows[i]).val], NotNone)

\* the detail pages in the records directory of the output tree
DetailFiles == {f \in files : f.path.dir \in {"docs/stores", "docs/shops"}}
CountLine(n) == <<"Generated">> \o DecimalStr(n) \o <<"store pages">>

(***************************************************************************)
(* C13: when a run has completed, it has printed exactly one line, and     *)
(* the count on that line is the number of detail pages that the records   *)
(* directory holds.                                                        *)
(***************************************************************************)
C13_PrintedCountIsPageCount ==
    Done => stdout = <<CountLine(Cardinality(DetailFiles))>>

DetailRenderers == {"GS_render_detail", "B_render_store"}
ConditionalFields == {"phone", "status", "category", "review_snippet", "snippet"}

(***************************************************************************)
(* C14: a detail page holds the element of the phone, the status, the      *)
(* snippet or the category of its record only when that field is not       *)
(* empty: no place of the page is filled with the empty text of one of     *)
(* these fields (an empty item, paragraph or link).                        *)
(***************************************************************************)
C14_ConditionalFieldsOnlyWhenPresent ==
    call \in DetailRenderers =>
        \A k \in 1..Len(ret.val) :
            (ret.val[k].kind = "text" /\ ret.val[k].field \in ConditionalFields)
                => ret.val[k].text # <<>>

\* the value an image field takes from its cell: the trimmed cell, or the
\* default when nothing is left
ImageOr(cell, default) == IF strip(cell) = <<>> THEN default ELSE strip(cell)

(***************************************************************************)
(* C15: in every record the two image fields are not empty: each is the    *)
(* trimmed value of its cell, or the fixed default URL of the field when   *)
(* the cell is missing, empty or blank.                                    *)
(***************************************************************************)
C15_ImageDefaultFallback ==
    /\ (call = "GS_row_to_store" /\ IsStore(ret)) =>
          /\ ret.val.hero_image = ImageOr(get(arg, 16), DEFAULT_HERO)
          /\ ret.val.avatar_image = ImageOr(get(arg, 17), DEFAULT_AVATAR)
          /\ ret.val.hero_image # <<>> /\ ret.val.avatar_image # <<>>
    /\ (call = "B_parse_store" /\ IsStore(ret)) =>
          /\ ret.val.image_url # <<>> /\ ret.val.default_avatar # <<>>
          /\ strip(get(arg, 12)) # <<>> => ret.val.image_url = strip(get(arg, 12))
          /\ strip(get(arg, 13)) # <<>> => ret.val.default_avatar = strip(get(arg, 13))

(***************************************************************************)
(* The runs of the three entry points together                             *)
(***************************************************************************)
InitRuns == Init \/ InitB \/ InitBS
NextRuns == Next \/ NextB \/ NextBS
SpecRuns == InitRuns /\ [][NextRuns]_vars

\* the records are made and the run is writing the output tree
Writing == GS_Mapped \/ B_MappedAll \/ BS_Mapped
\* the path and the page of record i, as the entry point that runs has them
RecordPath(i) ==
    CASE GS_Mapped -> GS_detail_path(stores[i])
      [] B_MappedAll -> B_detail_path(stores[i])
      [] BS_Mapped -> BS_shop_path(stores[i].slug)
RecordPage(i) ==
    CASE GS_Mapped -> GS_render_detail(stores[i])
      [] B_MappedAll -> B_render_store(stores[i])
      [] BS_Mapped -> BS_render_shop_page(stores[i].shop, stores[i].slug)
Slugs == {stores[i].slug : i \in 1..Len(stores)}
LastOfSlug(i) == \A j \in (i + 1)..Len(stores) : stores[j].slug # stores[i].slug

(***************************************************************************)
(* C16: whatever slugs the records have, equal ones included, the run      *)
(* goes on to its end without error once the records are made; at the end  *)
(* each slug has exactly one detail file, the file holds the page of the   *)
(* last record with that slug, and the records directory holds as many     *)
(* detail files as there are distinct slugs.                               *)
(***************************************************************************)
C16_LastRecordWins ==
    /\ Writing => error = NoError /\ (Done \/ ENABLED NextRuns)
    /\ Done =>
          /\ \A i \in 1..Len(stores) :
                /\ Cardinality({f \in files : f.path = RecordPath(i)}) = 1
                /\ LastOfSlug(i) =>
                      [path |-> RecordPath(i), content |-> RecordPage(i)] \in files
          /\ Cardinality(DetailFiles) = Cardinality(Slugs)

\* a run has ended with two records of different names under one slug: the
\* file of the slug holds the page of the later one, and there are fewer
\* detail files than records
C16_Witness ==
    /\ Done
    /\ \E i \in 1..Len(stores) : \E j \in (i + 1)..Len(stores) :
          /\ stores[i].slug = stores[j].slug /\ LastOfSlug(j)
          /\ RecordPage(i) # RecordPage(j)
          /\ [path |-> RecordPath(j), content |-> RecordPage(j)] \in files
    /\ Cardinality(DetailFiles) < Len(stores)

\* the href, relative to the index page, that reaches the file at path
LinkTo(path) ==
    CASE path.dir = "docs/stores" -> <<"stores/">> \o path.name
      [] path.dir = "docs/shops" -> <<"shops/">> \o path.name
      [] OTHER -> <<"../">> \o path.name
\* the detail links of a page
DetailLinks(page) == {page[k].text : k \in {n \in 1..Len(page) : page[n].slot = "card.href"}}
\* the detail files the run has written and the output tree holds
WrittenDetails == {f.path : f \in {g \in DetailFiles : Logged("write", g.path)}}

(***************************************************************************)
(* C17: when a run has completed, the index page it wrote lists every      *)
(* record with the link to the path of that record's detail file, and      *)
(* every detail link of the index page reaches a detail file that the run  *)
(* wrote.                                                                  *)
(***************************************************************************)
C17_LinkIntegrity ==
    Done =>
        /\ \E f \in files : f.path = GS_index_path /\ f # OldIndex
        /\ \A f \in files : f.path = GS_index_path =>
              /\ \A i \in 1..Len(stores) : LinkTo(RecordPath(i)) \in DetailLinks(f.content)
              /\ \A l \in DetailLinks(f.content) : \E p \in WrittenDetails : LinkTo(p) = l

\* a run of generate_sites.py has ended with two records that both have
\* the fallback slug: the index page links to the one file written for them
C17_Witness ==
    /\ pc = "done" /\ Len(stores) = 2
    /\ stores[1].slug = SlugFallback /\ stores[2].slug = SlugFallback
    /\ \E f \in files : f.path = GS_index_path /\ DetailLinks(f.content) = {LinkTo(GS_detail_path(stores[2]))}
    /\ WrittenDetails = {GS_detail_path(stores[2])}

====
